---------------------------- MODULE Spec2Model ----------------------------
(***************************************************************************)
(* Model of the digestus "updates" application: the celery tasks of        *)
(* updates/tasks.py (schedule_reminders, send_reminders,                   *)
(* remind_team_member, schedule_digest, send_digest) over the models of    *)
(* updates/models.py (Team, Membership, Update, SilentRecipient).          *)
(*                                                                         *)
(* A datetime is a record [t, off]: t is the instant in seconds since      *)
(* Monday 00:00:00 UTC of a reference week, off the UTC offset of its      *)
(* tzinfo.  Its calendar fields (weekday, year/month/day, hour, minute,    *)
(* second) are those of t + off; two datetimes are the same instant when   *)
(* their t agree.                                                          *)
(***************************************************************************)
EXTENDS Integers, Sequences, FiniteSets, Bags, TLC

VARIABLES
    now,          \* the instant django.utils.timezone.now() returns
    team,         \* Team rows, by id
    membership,   \* Membership rows, by id
    updates,      \* Update rows of each membership, in primary-key order
    site,         \* whether the Site row with pk=1 exists
    queue,        \* the celery queue: a bag of pending task messages
    outbox,       \* the emails the transport accepted: a bag
    executed,     \* the task executions so far, with what each did: a bag
    budget        \* how many more scheduler calls, transport failures and
                  \* edits of the stored data this run of the system has

vars == <<now, team, membership, updates, site, queue, outbox, executed, budget>>

-----------------------------------------------------------------------------
(* Bounds of the model.                                                    *)

MaxCalls == 1

MaxFailures == 1

MaxSendFailures == 6

MaxChanges == 1

MaxRedeliveries == 1

MaxLen == 4

-----------------------------------------------------------------------------
(* Time.                                                                   *)

SecondsPerHour == 60 * 60
SecondsPerDay == 24 * SecondsPerHour

\* pytz.UTC and pytz.timezone('Asia/Manila'), as UTC offsets in seconds
UTC == 0 * SecondsPerHour
ph_tz == 8 * SecondsPerHour

At(day, hour, minute, second) ==
    day * SecondsPerDay + hour * SecondsPerHour + minute * 60 + second

\* datetime.astimezone(tz): the same instant, seen in tz
astimezone(dt, tz) == [t |-> dt.t, off |-> tz]

\* the calendar day (year, month, day) of a datetime, as a day number
date(dt) == (dt.t + dt.off) \div SecondsPerDay

\* datetime.weekday(): Monday is 0
weekday(dt) == date(dt) % 7

\* datetime.replace(hour=, minute=): second (and microsecond, tzinfo) stay
replace(dt, hour, minute) ==
    [t   |-> At(date(dt), hour, minute, (dt.t + dt.off) % 60) - dt.off,
     off |-> dt.off]

\* dt - datetime.timedelta(hours=h)
minus_hours(dt, h) == [t |-> dt.t - h * SecondsPerHour, off |-> dt.off]

\* django.utils.timezone.now(): aware, in UTC
timezone_now == [t |-> now, off |-> UTC]

\* a datetime.time of a TimeField
time(hour, minute, second) == [hour |-> hour, minute |-> minute, second |-> second]

-----------------------------------------------------------------------------
(* The stored data.                                                        *)

Teams == {1, 2}
Memberships == {1, 2, 3}
Users == {"u1", "u2", "u3", "u4"}
None == "None"
Roles == {"Project Manager", "Developer"}

\* User.email
user_email(u) == u \o "@test.ph"

\* Team.digest_days_sent values: none, Monday to Friday, the weekend
DaySets == {{}, {0, 1, 2, 3, 4}, {5, 6}}

\* the characters of the text fields
NL == "\n"
SP == " "

\* Update.will_do / Update.blocker values: "", "A\n\nB \n", " "
Texts == {<<>>, <<"A", NL, NL, "B", SP, NL>>, <<SP>>}

\* the rows of each table the ORM can see
TeamRows == {t \in Teams : team[t].exists}
MembershipRows == {m \in Memberships : membership[m].exists}

\* a set of primary keys as a sequence in primary-key order
RECURSIVE by_pk(_)
by_pk(S) ==
    IF S = {} THEN <<>>
    ELSE LET k == CHOOSE x \in S : \A y \in S : x <= y
         IN  <<k>> \o by_pk(S \ {k})

\* team.memberships.filter(is_active=True)
active_memberships(t) ==
    by_pk({m \in MembershipRows : membership[m].team = t /\ membership[m].is_active})

\* the elements of a sequence
Range(s) == {s[i] : i \in DOMAIN s}

\* QuerySet.distinct(): each row once, first occurrence kept
RECURSIVE distinct(_)
distinct(rows) ==
    IF rows = <<>> THEN <<>>
    ELSE LET init == distinct(SubSeq(rows, 1, Len(rows) - 1))
             x    == rows[Len(rows)]
         IN  IF x \in Range(init) THEN init ELSE Append(init, x)

\* Team JOIN Membership, filtered: one row per (team, active membership) of a
\* team that is active and has days configured
joined_rows ==
    LET ms == by_pk({m \in MembershipRows :
                        /\ membership[m].is_active
                        /\ membership[m].team \in TeamRows
                        /\ team[membership[m].team].is_active
                        /\ Cardinality(team[membership[m].team].digest_days_sent) # 0})
    IN  [i \in DOMAIN ms |-> membership[ms[i]].team]

\* the filter without .distinct(): one row per active membership
active_teams_repeated == joined_rows

\* Team.objects.filter(~Q(digest_days_sent__len=0), memberships__is_active__gt=0,
\*                     is_active=True).distinct()
active_teams == distinct(joined_rows)

-----------------------------------------------------------------------------
(* Task messages and the queue.                                            *)

NoDate == [t |-> 0, off |-> UTC]

\* a task message: the task, its arguments, its ETA and request.retries.
\* todos and blockers are <<>> for None and <<list>> for a list.
Job(task, id, eta, for_date, pm, todos, blockers, retries) ==
    [task |-> task, id |-> id, eta |-> eta, for_date |-> for_date, pm |-> pm,
     todos |-> todos, blockers |-> blockers, retries |-> retries]

\* the queue with the messages of a sequence added, one enqueue per element
RECURSIVE enqueue_all(_, _)
enqueue_all(q, jobs) ==
    IF jobs = <<>> THEN q
    ELSE enqueue_all(q (+) SetToBag({Head(jobs)}), Tail(jobs))

\* the messages a worker may take now: those whose ETA has come
due == {j \in BagToSet(queue) : j.eta.t <= now}

\* the record of one execution of message j: how it ended, what it logged
\* (none, logger.error, logger.exception) and whether it called Mandrill
Did(j, outcome, log, lookup) ==
    [task |-> j.task, id |-> j.id, pm |-> j.pm, retries |-> j.retries,
     outcome |-> outcome, log |-> log, lookup |-> lookup]

-----------------------------------------------------------------------------
(* The schedulers.                                                         *)

\* the weekday check on timezone.now() itself, which is in UTC
is_send_day_utc(t) == weekday(timezone_now) \in team[t].digest_days_sent

\* today.weekday() in team.digest_days_sent, today being now in Asia/Manila
is_send_day(t) ==
    weekday(astimezone(timezone_now, ph_tz)) \in team[t].digest_days_sent

\* today.replace(hour=team.send_reminders_at.hour, minute=team.send_reminders_at.minute)
reminders_eta(t) ==
    replace(astimezone(timezone_now, ph_tz),
            team[t].send_reminders_at.hour, team[t].send_reminders_at.minute)

\* today.replace(hour=team.send_digest_at.hour, minute=team.send_digest_at.minute)
digest_eta(t) ==
    replace(astimezone(timezone_now, ph_tz),
            team[t].send_digest_at.hour, team[t].send_digest_at.minute)

\* the ETA of the regular digest, taken for the flagged one too
pm_digest_eta_same(t) == digest_eta(t)

\* digest_eta - datetime.timedelta(hours=1)
pm_digest_eta(t) == minus_hours(digest_eta(t), 1)

\* the send_reminders messages of one schedule_reminders call, in loop order
RECURSIVE reminder_jobs(_)
reminder_jobs(ts) ==
    IF ts = <<>> THEN <<>>
    ELSE (IF is_send_day(Head(ts))
          THEN <<Job("send_reminders", Head(ts), reminders_eta(Head(ts)),
                     NoDate, FALSE, <<>>, <<>>, 0)>>
          ELSE <<>>) \o reminder_jobs(Tail(ts))

\* the send_digest messages of a call that gives each message its own ETA as
\* for_date
RECURSIVE digest_jobs_own_eta(_)
digest_jobs_own_eta(ts) ==
    IF ts = <<>> THEN <<>>
    ELSE (IF is_send_day(Head(ts))
          THEN <<Job("send_digest", Head(ts), digest_eta(Head(ts)),
                     astimezone(digest_eta(Head(ts)), UTC), FALSE, <<>>, <<>>, 0),
                 Job("send_digest", Head(ts), pm_digest_eta(Head(ts)),
                     astimezone(pm_digest_eta(Head(ts)), UTC), TRUE, <<>>, <<>>, 0)>>
          ELSE <<>>) \o digest_jobs_own_eta(Tail(ts))

\* the send_digest messages of one schedule_digest call, in loop order
RECURSIVE digest_jobs(_)
digest_jobs(ts) ==
    IF ts = <<>> THEN <<>>
    ELSE (IF is_send_day(Head(ts))
          THEN <<Job("send_digest", Head(ts), digest_eta(Head(ts)),
                     astimezone(digest_eta(Head(ts)), UTC), FALSE, <<>>, <<>>, 0),
                 Job("send_digest", Head(ts), pm_digest_eta(Head(ts)),
                     astimezone(digest_eta(Head(ts)), UTC), TRUE, <<>>, <<>>, 0)>>
          ELSE <<>>) \o digest_jobs(Tail(ts))

\* a scheduler over every team row, whatever its days, for its reminder time today
schedule_reminders_any_day ==
    /\ budget.calls > 0
    /\ budget' = [budget EXCEPT !.calls = budget.calls - 1]
    /\ queue' = enqueue_all(queue,
                    [i \in DOMAIN by_pk(TeamRows) |->
                        Job("send_reminders", by_pk(TeamRows)[i],
                            reminders_eta(by_pk(TeamRows)[i]),
                            NoDate, FALSE, <<>>, <<>>, 0)])
    /\ UNCHANGED <<now, team, membership, updates, site, outbox, executed>>

\* a scheduler that skips the teams that have a send_reminders message pending
schedule_reminders_once_a_day ==
    /\ budget.calls > 0
    /\ budget' = [budget EXCEPT !.calls = budget.calls - 1]
    /\ queue' = enqueue_all(queue,
                    SelectSeq(reminder_jobs(active_teams),
                              LAMBDA x : \A k \in BagToSet(queue) :
                                            ~(k.task = x.task /\ k.id = x.id)))
    /\ UNCHANGED <<now, team, membership, updates, site, outbox, executed>>

schedule_reminders ==
    /\ budget.calls > 0
    /\ budget' = [budget EXCEPT !.calls = budget.calls - 1]
    /\ queue' = enqueue_all(queue, reminder_jobs(active_teams))
    /\ UNCHANGED <<now, team, membership, updates, site, outbox, executed>>

schedule_digest ==
    /\ budget.calls > 0
    /\ budget' = [budget EXCEPT !.calls = budget.calls - 1]
    /\ queue' = enqueue_all(queue, digest_jobs(active_teams))
    /\ UNCHANGED <<now, team, membership, updates, site, outbox, executed>>

-----------------------------------------------------------------------------
(* Update text fields.                                                     *)

\* str.isspace() of one character
is_space(c) == c \in {SP, NL}

\* str.strip(): leading and trailing whitespace removed
RECURSIVE lstrip(_)
lstrip(s) == IF s # <<>> /\ is_space(Head(s)) THEN lstrip(Tail(s)) ELSE s

RECURSIVE rstrip(_)
rstrip(s) ==
    IF s # <<>> /\ is_space(s[Len(s)]) THEN rstrip(SubSeq(s, 1, Len(s) - 1)) ELSE s

strip(s) == rstrip(lstrip(s))

\* str.split('\n'): the pieces between newlines, empty pieces included
RECURSIVE split(_)
split(s) ==
    IF \A i \in DOMAIN s : s[i] # NL THEN <<s>>
    ELSE LET k == CHOOSE i \in DOMAIN s :
                      s[i] = NL /\ \A h \in 1..(i - 1) : s[h] # NL
         IN  <<SubSeq(s, 1, k - 1)>> \o split(SubSeq(s, k + 1, Len(s)))

\* [x for x in lines if x.strip()]
RECURSIVE non_blank(_)
non_blank(lines) ==
    IF lines = <<>> THEN <<>>
    ELSE (IF strip(Head(lines)) # <<>> THEN <<Head(lines)>> ELSE <<>>)
         \o non_blank(Tail(lines))

\* Update.done_as_list / will_do_as_list / blocker_as_list, of the field's text
as_list(text) == non_blank(split(strip(text)))

will_do_as_list(update) == as_list(update.will_do)

blocker_as_list(update) == as_list(update.blocker)

-----------------------------------------------------------------------------
(* Team methods.                                                           *)

\* membership.updates.filter(for_date__year=, for_date__month=, for_date__day=)
\* .first(): <<>> for None, else <<the first row in primary-key order>>
first_update(m, dt) ==
    LET hits == SelectSeq(updates[m], LAMBDA u : u.for_date = date(dt))
    IN  IF hits = <<>> THEN <<>> ELSE <<Head(hits)>>

\* membership.role.name raises AttributeError when the membership has no role
roles_ok(t) ==
    \A i \in DOMAIN active_memberships(t) :
        membership[active_memberships(t)[i]].role # None

\* get_updates over every membership of the team, active or not
get_updates_all_members(t, for_date) ==
    LET ms == by_pk({m \in MembershipRows : membership[m].team = t})
    IN  [i \in DOMAIN ms |->
            [member |-> membership[ms[i]].user,
             update |-> first_update(ms[i], for_date),
             role   |-> membership[ms[i]].role]]

\* Team.get_updates(for_date): one entry per active membership
get_updates(t, for_date) ==
    [i \in DOMAIN active_memberships(t) |->
        LET m == active_memberships(t)[i]
        IN  [member |-> membership[m].user,
             update |-> first_update(m, for_date),
             role   |-> membership[m].role]]

\* list(set(xs)): the distinct elements, in some order
RECURSIVE list_of_set(_)
list_of_set(S) ==
    IF S = {} THEN <<>>
    ELSE LET x == CHOOSE y \in S : TRUE
         IN  <<x>> \o list_of_set(S \ {x})

\* self.memberships.filter(is_active=True).values_list('user__email', flat=True)
team_members(t) ==
    [i \in DOMAIN active_memberships(t) |->
        user_email(membership[active_memberships(t)[i]].user)]

\* self.silent_recipients.values_list('user__email', flat=True)
silent_recipients(t) ==
    LET us == list_of_set(team[t].silent_recipients)
    IN  [i \in DOMAIN us |-> user_email(us[i])]

\* get_recipients without set(): the three lists one after the other
get_recipients_list(t, for_project_managers) ==
    IF for_project_managers
    THEN <<user_email(team[t].created_by)>>
    ELSE team_members(t) \o silent_recipients(t) \o <<user_email(team[t].created_by)>>

\* get_recipients without its for_project_managers branch
get_recipients_everyone(t, for_project_managers) ==
    list_of_set(Range(team_members(t) \o silent_recipients(t)
                      \o <<user_email(team[t].created_by)>>))

\* Team.get_recipients(for_project_managers)
get_recipients(t, for_project_managers) ==
    IF for_project_managers
    THEN <<user_email(team[t].created_by)>>
    ELSE list_of_set(Range(team_members(t) \o silent_recipients(t)
                           \o <<user_email(team[t].created_by)>>))

-----------------------------------------------------------------------------
(* Retry.                                                                  *)

\* countdown= and max_retries= of both retry calls
countdown == 300

max_retries == 5

\* a retry limit that lets one more retry through
can_retry_once_more(j) == j.retries <= max_retries

\* Task.retry(args=<the same arguments>, countdown=300, max_retries=5): the
\* message is sent again with request.retries + 1 unless that exceeds
\* max_retries, in which case the exception is raised and the task fails
can_retry(j) == j.retries + 1 <= max_retries

\* a retry of a reminder that is addressed to the first active membership of
\* the member's team instead of the member
retry_first_member(j) ==
    [j EXCEPT !.retries = j.retries + 1,
              !.eta = [t |-> now + countdown, off |-> UTC],
              !.id = IF j.task = "remind_team_member"
                     THEN active_memberships(membership[j.id].team)[1]
                     ELSE j.id]

\* a retry that passes the id alone: retry(args=[membership_id]) or
\* retry(args=[team_id, for_date]), the other arguments taking their defaults
retry_bare(j) ==
    [j EXCEPT !.retries = j.retries + 1,
              !.eta = [t |-> now + countdown, off |-> UTC],
              !.todos = <<>>, !.blockers = <<>>, !.pm = FALSE]

retry(j) ==
    [j EXCEPT !.retries = j.retries + 1,
              !.eta = [t |-> now + countdown, off |-> UTC]]

\* the queue after message j was taken and the messages of a sequence were sent
after(j, jobs) == enqueue_all(queue (-) SetToBag({j}), jobs)

-----------------------------------------------------------------------------
(* The send executors.  Each action is one execution of a task message j   *)
(* by a worker: the message leaves the queue, and what the task enqueues,  *)
(* sends and logs is recorded.                                             *)

\* get_domain_name() returns the domain when the Site row exists; when it does
\* not, its handler calls logger.error with no logger defined in helpers.py
domain_ok == site

\* '{name} <{email}>'.format(name=user.get_full_name(), email=user.email)
recipient(u) == u \o " <" \o user_email(u) \o ">"

\* the email of remind_team_member
reminder_msg(j) ==
    [kind |-> "reminder", team |-> membership[j.id].team,
     to |-> <<recipient(membership[j.id].user)>>,
     date |-> 0, roster |-> <<>>,
     todos |-> j.todos, blockers |-> j.blockers]

\* the email of send_digest; the subject carries the Asia/Manila date of for_date
digest_msg(j) ==
    [kind |-> "digest", team |-> j.id,
     to |-> get_recipients(j.id, j.pm),
     date |-> date(astimezone(j.for_date, ph_tz)),
     roster |-> get_updates(j.id, j.for_date),
     todos |-> <<>>, blockers |-> <<>>]

\* a task that deletes the updates it has reminded the member of
finish_consuming(j, jobs, emails, did, failed) ==
    /\ queue' = after(j, jobs)
    /\ outbox' = outbox (+) SetToBag(emails)
    /\ executed' = executed (+) SetToBag({did})
    /\ budget' = [budget EXCEPT !.failures = budget.failures - failed]
    /\ updates' = [m \in Memberships |->
                     IF j.task = "remind_team_member" /\ m = j.id /\ emails # {}
                     THEN <<>> ELSE updates[m]]
    /\ UNCHANGED <<now, team, membership, site>>

\* the task ends: its message is gone, jobs are enqueued, emails are out
finish(j, jobs, emails, did, failed) ==
    /\ queue' = after(j, jobs)
    /\ outbox' = outbox (+) SetToBag(emails)
    /\ executed' = executed (+) SetToBag({did})
    /\ budget' = [budget EXCEPT !.failures = budget.failures - failed]
    /\ UNCHANGED <<now, team, membership, updates, site>>

\* msg.send() inside try/except: the transport takes the message, or raises and
\* the handler logs and calls retry
deliver(j, msg) ==
    \/ finish(j, <<>>, {msg}, Did(j, "sent", "none", FALSE), 0)
    \/ /\ budget.failures > 0
       /\ IF can_retry(j)
          THEN finish(j, <<retry(j)>>, {}, Did(j, "retry", "exception", FALSE), 1)
          ELSE finish(j, <<>>, {}, Did(j, "failed", "exception", FALSE), 1)

\* the two lookups without is_active=True
team_found_any(t) == t \in TeamRows

membership_found_any(m) == m \in MembershipRows

\* Team.objects.get(id=team_id, is_active=True) finds a row
team_found(t) == t \in TeamRows /\ team[t].is_active

\* Membership.objects.get(id=membership_id, is_active=True) finds a row
membership_found(m) == m \in MembershipRows /\ membership[m].is_active

remind_team_member(j) ==
    /\ j \in due
    /\ j.task = "remind_team_member"
    /\ \/ /\ ~membership_found(j.id)
          /\ finish(j, <<>>, {}, Did(j, "no_membership", "error", FALSE), 0)
       \/ /\ membership_found(j.id)
          /\ ~domain_ok
          /\ finish(j, <<>>, {}, Did(j, "crashed", "none", FALSE), 0)
       \/ /\ membership_found(j.id)
          /\ domain_ok
          /\ deliver(j, reminder_msg(j))

\* the remind_team_member message send_reminders sends for membership m
reminder_for(m) ==
    LET update == first_update(m, timezone_now)
    IN  IF update # <<>> /\ (update[1].will_do # <<>> \/ update[1].blocker # <<>>)
        THEN Job("remind_team_member", m, timezone_now, NoDate, FALSE,
                 <<will_do_as_list(update[1])>>, <<blocker_as_list(update[1])>>, 0)
        ELSE Job("remind_team_member", m, timezone_now, NoDate, FALSE, <<>>, <<>>, 0)

send_reminders(j) ==
    /\ j \in due
    /\ j.task = "send_reminders"
    /\ \/ /\ ~team_found(j.id)
          /\ finish(j, <<>>, {}, Did(j, "no_team", "error", FALSE), 0)
       \/ /\ team_found(j.id)
          /\ active_memberships(j.id) = <<>>
          /\ finish(j, <<>>, {}, Did(j, "no_members", "error", FALSE), 0)
       \/ /\ team_found(j.id)
          /\ active_memberships(j.id) # <<>>
          \* mc.subaccounts.info(id=team.subaccount_id) raises
          /\ finish(j, <<>>, {}, Did(j, "bad_account", "exception", TRUE), 0)
       \/ /\ team_found(j.id)
          /\ active_memberships(j.id) # <<>>
          \* mc.subaccounts.info(id=team.subaccount_id) returns
          /\ LET ms   == active_memberships(j.id)
                 jobs == [i \in DOMAIN ms |-> reminder_for(ms[i])]
             IN  finish(j, jobs, {}, Did(j, "enqueued", "none", TRUE), 0)

send_digest(j) ==
    /\ j \in due
    /\ j.task = "send_digest"
    /\ \/ /\ ~team_found(j.id)
          /\ finish(j, <<>>, {}, Did(j, "no_team", "exception", FALSE), 0)
       \/ /\ team_found(j.id)
          /\ ~roles_ok(j.id)
          /\ finish(j, <<>>, {}, Did(j, "crashed", "none", FALSE), 0)
       \/ /\ team_found(j.id)
          /\ roles_ok(j.id)
          /\ get_updates(j.id, j.for_date) = <<>>
          /\ finish(j, <<>>, {}, Did(j, "no_members", "error", FALSE), 0)
       \/ /\ team_found(j.id)
          /\ roles_ok(j.id)
          /\ get_updates(j.id, j.for_date) # <<>>
          /\ ~domain_ok
          /\ finish(j, <<>>, {}, Did(j, "crashed", "none", FALSE), 0)
       \/ /\ team_found(j.id)
          /\ roles_ok(j.id)
          /\ get_updates(j.id, j.for_date) # <<>>
          /\ domain_ok
          /\ deliver(j, digest_msg(j))

-----------------------------------------------------------------------------
(* The clock and the edits of the stored data that happen beside the tasks *)
(* (the admin, the views, the tests' factories and save() calls).          *)

\* the instants the clock is read at: Sat 00:00:00, Sun 16:00:30, Mon 00:00:00,
\* Mon 12:00:45 and Fri 16:00:30 UTC, that is Sat 08:00:00, Mon 00:00:30,
\* Mon 08:00:00, Mon 20:00:45 and Sat 00:00:30 in Asia/Manila
Instants ==
    {At(5, 0, 0, 0), At(6, 16, 0, 30), At(7, 0, 0, 0), At(7, 12, 0, 45),
     At(11, 16, 0, 30)}

\* time passes, to the next instant of the list
Tick ==
    /\ {i \in Instants : i > now} # {}
    /\ now' = CHOOSE i \in Instants : i > now /\ \A k \in Instants : k > now => i <= k
    /\ UNCHANGED <<team, membership, updates, site, queue, outbox, executed, budget>>

\* time passes, to the next ETA of a pending message (a countdown runs out)
wait ==
    LET etas == {j.eta.t : j \in {k \in BagToSet(queue) : k.eta.t > now}}
    IN  /\ etas # {}
        /\ now' = CHOOSE i \in etas : \A k \in etas : i <= k
        /\ UNCHANGED <<team, membership, updates, site, queue, outbox, executed, budget>>

edit ==
    /\ budget.edits > 0
    /\ budget' = [budget EXCEPT !.edits = budget.edits - 1]
    /\ UNCHANGED <<now, queue, outbox, executed>>

\* team.is_active = not team.is_active; team.save()
set_team_active(t) ==
    /\ edit
    /\ t \in TeamRows
    /\ team' = [team EXCEPT ![t].is_active = ~team[t].is_active]
    /\ UNCHANGED <<membership, updates, site>>

\* membership.is_active = not membership.is_active; membership.save()
set_membership_active(m) ==
    /\ edit
    /\ m \in MembershipRows
    /\ membership' = [membership EXCEPT ![m].is_active = ~membership[m].is_active]
    /\ UNCHANGED <<team, updates, site>>

\* membership.role = None; membership.save()
clear_role(m) ==
    /\ edit
    /\ m \in MembershipRows
    /\ membership[m].role # None
    /\ membership' = [membership EXCEPT ![m].role = None]
    /\ UNCHANGED <<team, updates, site>>

\* team.delete(): its memberships and their updates go with it
delete_team(t) ==
    /\ edit
    /\ t \in TeamRows
    /\ team' = [team EXCEPT ![t].exists = FALSE]
    /\ membership' = [m \in Memberships |->
                        IF membership[m].team = t
                        THEN [membership[m] EXCEPT !.exists = FALSE]
                        ELSE membership[m]]
    /\ updates' = [m \in Memberships |->
                        IF membership[m].team = t THEN <<>> ELSE updates[m]]
    /\ UNCHANGED site

\* membership.delete(): its updates go with it
delete_membership(m) ==
    /\ edit
    /\ m \in MembershipRows
    /\ membership' = [membership EXCEPT ![m].exists = FALSE]
    /\ updates' = [updates EXCEPT ![m] = <<>>]
    /\ UNCHANGED <<team, site>>

\* Site.objects.get(pk=1).delete()
delete_site ==
    /\ edit
    /\ site
    /\ site' = FALSE
    /\ UNCHANGED <<team, membership, updates>>

-----------------------------------------------------------------------------
(* The system.                                                             *)

\* a Team row
Team(days, digest_at, reminders_at, owner, silent) ==
    [exists |-> TRUE, is_active |-> TRUE, digest_days_sent |-> days,
     send_digest_at |-> digest_at, send_reminders_at |-> reminders_at,
     created_by |-> owner, silent_recipients |-> silent]

\* a Membership row
Membership(t, u, r) ==
    [exists |-> TRUE, is_active |-> TRUE, team |-> t, user |-> u, role |-> r]

\* an Update row
Update(day, dn, will_do, blocker) ==
    [for_date |-> day, done |-> dn, will_do |-> will_do, blocker |-> blocker]

\* the database: team 1 (owner u1, a member; u2 both a member and a silent
\* recipient) with the factory's send times, team 2 (owner u3, not a member)
\* sending before 08:00 and with seconds in its TimeField
Database(d1, d2) ==
    /\ team = (1 :> Team(d1, time(9, 0, 0), time(18, 0, 0), "u1", {"u2", "u4"})
            @@ 2 :> Team(d2, time(7, 30, 15), time(23, 30, 0), "u3", {}))
    /\ membership = (1 :> Membership(1, "u1", "Developer")
                  @@ 2 :> Membership(1, "u2", "Project Manager")
                  @@ 3 :> Membership(2, "u2", "Project Manager"))
    /\ updates = (1 :> <<Update(7, <<"A">>, <<"A", NL, NL, "B", SP, NL>>, <<>>)>>
               @@ 2 :> <<>>
               @@ 3 :> <<Update(6, <<"A">>, <<SP>>, <<>>),
                         Update(7, <<>>, <<>>, <<"B">>)>>)
    /\ site = TRUE

Empty ==
    /\ queue = EmptyBag
    /\ outbox = EmptyBag
    /\ executed = EmptyBag

\* the whole system: team 1 sends Monday to Friday, team 2 has no days configured
Init ==
    /\ now = At(5, 0, 0, 0)
    /\ Database({0, 1, 2, 3, 4}, {})
    /\ Empty
    /\ budget = [calls |-> MaxCalls, failures |-> MaxFailures, edits |-> MaxChanges]

Next ==
    \/ Tick
    \/ schedule_reminders
    \/ schedule_digest
    \/ \E j \in due : send_reminders(j)
    \/ \E j \in due : remind_team_member(j)
    \/ \E j \in due : send_digest(j)
    \/ \E t \in Teams : set_team_active(t)
    \/ \E m \in Memberships : set_membership_active(m)
    \/ \E m \in Memberships : clear_role(m)
    \/ \E t \in Teams : delete_team(t)
    \/ \E m \in Memberships : delete_membership(m)
    \/ delete_site

Spec == Init /\ [][Next]_vars

\* the schedulers alone, over every configuration of send days and every instant
InitSchedule ==
    /\ now \in Instants
    /\ \E d1, d2 \in DaySets : Database(d1, d2)
    /\ Empty
    /\ budget = [calls |-> MaxCalls, failures |-> 0, edits |-> MaxChanges]

NextSchedule ==
    \/ Tick
    \/ schedule_reminders
    \/ schedule_digest
    \/ \E t \in Teams : set_team_active(t)
    \/ \E m \in Memberships : set_membership_active(m)
    \/ \E t \in Teams : delete_team(t)
    \/ \E m \in Memberships : delete_membership(m)

SpecSchedule == InitSchedule /\ [][NextSchedule]_vars

\* the send executors under a failing transport, from the scheduler's call on
\* Monday 00:00:00 UTC on, with the countdowns running out
InitRetry ==
    /\ now = At(7, 0, 0, 0)
    /\ Database({0, 1, 2, 3, 4}, {})
    /\ Empty
    /\ budget = [calls |-> MaxCalls, failures |-> MaxSendFailures, edits |-> 0]

NextRetry ==
    \/ wait
    \/ schedule_reminders
    \/ schedule_digest
    \/ \E j \in due : send_reminders(j)
    \/ \E j \in due : remind_team_member(j)
    \/ \E j \in due : send_digest(j)

SpecRetry == InitRetry /\ [][NextRetry]_vars

\* the digests of both teams, over every owner, set of silent recipients and
\* set of active memberships of team 1
InitDigest ==
    /\ now = At(7, 0, 0, 0)
    /\ \E owner \in {"u1", "u2", "u3"}, silent \in SUBSET {"u2", "u4"},
          a1, a2, a3 \in BOOLEAN :
          /\ team = (1 :> Team({0, 1, 2, 3, 4}, time(9, 0, 0), time(18, 0, 0),
                               owner, silent)
                  @@ 2 :> Team({0, 1, 2, 3, 4}, time(7, 30, 15), time(23, 30, 0),
                               "u3", {}))
          /\ membership =
                (1 :> [Membership(1, "u1", "Developer") EXCEPT !.is_active = a1]
              @@ 2 :> [Membership(1, "u2", "Project Manager") EXCEPT !.is_active = a2]
              @@ 3 :> [Membership(2, "u2", "Project Manager") EXCEPT !.is_active = a3])
    /\ updates = [m \in Memberships |-> <<>>]
    /\ site = TRUE
    /\ Empty
    /\ budget = [calls |-> MaxCalls, failures |-> 0, edits |-> 0]

NextDigest ==
    \/ Tick
    \/ schedule_digest
    \/ \E j \in due : send_digest(j)

SpecDigest == InitDigest /\ [][NextDigest]_vars

-----------------------------------------------------------------------------
(* The tasks called by hand, as the tests and any caller of .delay() do,   *)
(* on a queue that may deliver a message more than once.                   *)

\* the for_date arguments: Sunday 23:30:00 UTC, which is Monday 07:30:00 in
\* Asia/Manila, and Monday 01:00:00 UTC, which is Monday 09:00:00
ForDates == {[t |-> At(6, 23, 30, 0), off |-> UTC], [t |-> At(7, 1, 0, 0), off |-> UTC]}

\* a call from outside the schedulers
call ==
    /\ budget.calls > 0
    /\ budget' = [budget EXCEPT !.calls = budget.calls - 1]
    /\ UNCHANGED <<now, team, membership, updates, site, outbox, executed>>

\* send_digest.delay(team_id, for_date, for_project_managers)
delay_send_digest(t, for_date, pm) ==
    /\ call
    /\ queue' = queue (+) SetToBag({Job("send_digest", t, timezone_now, for_date, pm,
                                        <<>>, <<>>, 0)})

\* send_reminders.delay(team_id)
delay_send_reminders(t) ==
    /\ call
    /\ queue' = queue (+) SetToBag({Job("send_reminders", t, timezone_now, NoDate,
                                        FALSE, <<>>, <<>>, 0)})

\* remind_team_member.delay(membership_id)
delay_remind_team_member(m) ==
    /\ call
    /\ queue' = queue (+) SetToBag({Job("remind_team_member", m, timezone_now, NoDate,
                                        FALSE, <<>>, <<>>, 0)})

\* the queue delivers a pending message once more
redeliver(j) ==
    /\ j \in BagToSet(queue)
    /\ budget.again > 0
    /\ budget' = [budget EXCEPT !.again = budget.again - 1]
    /\ queue' = queue (+) SetToBag({j})
    /\ UNCHANGED <<now, team, membership, updates, site, outbox, executed>>

\* every set of active memberships, team 2 active or not, membership 3 there
\* or not
InitDirect ==
    /\ now = At(7, 0, 0, 0)
    /\ \E a1, a2, a3, e3, t2 \in BOOLEAN :
          /\ team = (1 :> Team({0, 1, 2, 3, 4}, time(9, 0, 0), time(18, 0, 0),
                               "u1", {"u2", "u4"})
                  @@ 2 :> [Team({0, 1, 2, 3, 4}, time(7, 30, 15), time(23, 30, 0),
                                "u3", {}) EXCEPT !.is_active = t2])
          /\ membership =
                (1 :> [Membership(1, "u1", "Developer") EXCEPT !.is_active = a1]
              @@ 2 :> [Membership(1, "u2", "Project Manager") EXCEPT !.is_active = a2]
              @@ 3 :> [Membership(2, "u2", "Project Manager")
                          EXCEPT !.is_active = a3, !.exists = e3])
          /\ updates =
                (1 :> <<Update(7, <<"A">>, <<"A", NL, NL, "B", SP, NL>>, <<>>)>>
              @@ 2 :> <<>>
              @@ 3 :> IF e3 THEN <<Update(6, <<"A">>, <<SP>>, <<>>),
                                   Update(7, <<>>, <<>>, <<"B">>)>>
                            ELSE <<>>)
    /\ site = TRUE
    /\ Empty
    /\ budget = [calls |-> MaxCalls, failures |-> 0, edits |-> 0,
                 again |-> MaxRedeliveries]

NextDirect ==
    \/ \E t \in Teams, d \in ForDates, pm \in BOOLEAN : delay_send_digest(t, d, pm)
    \/ \E t \in Teams : delay_send_reminders(t)
    \/ \E m \in Memberships : delay_remind_team_member(m)
    \/ \E j \in BagToSet(queue) : redeliver(j)
    \/ \E j \in due : send_reminders(j)
    \/ \E j \in due : remind_team_member(j)
    \/ \E j \in due : send_digest(j)

SpecDirect == InitDirect /\ [][NextDirect]_vars

\* the reminders of a team that sends at 18:00:00 and of one that sends at
\* 07:00:00, scheduled on Monday 00:00:30 or Monday 08:00:00 in Asia/Manila,
\* over every set of active memberships, the member of the second team having
\* an update for Sunday, for Monday or for both
InitReminders ==
    /\ now \in {At(6, 16, 0, 30), At(7, 0, 0, 0)}
    /\ \E a1, a2, a3 \in BOOLEAN :
          /\ team = (1 :> Team({0, 1, 2, 3, 4}, time(9, 0, 0), time(18, 0, 0),
                               "u1", {"u2", "u4"})
                  @@ 2 :> Team({0, 1, 2, 3, 4}, time(7, 30, 15), time(7, 0, 0),
                               "u3", {}))
          /\ membership =
                (1 :> [Membership(1, "u1", "Developer") EXCEPT !.is_active = a1]
              @@ 2 :> [Membership(1, "u2", "Project Manager") EXCEPT !.is_active = a2]
              @@ 3 :> [Membership(2, "u2", "Project Manager") EXCEPT !.is_active = a3])
    /\ \E u3 \in {<<Update(6, <<"A">>, <<SP>>, <<>>), Update(7, <<>>, <<>>, <<"B">>)>>,
                    <<Update(6, <<"A">>, <<SP>>, <<>>)>>,
                    <<Update(7, <<>>, <<>>, <<"B">>)>>} :
          updates = (1 :> <<Update(7, <<"A">>, <<"A", NL, NL, "B", SP, NL>>, <<>>)>>
                  @@ 2 :> <<>>
                  @@ 3 :> u3)
    /\ site = TRUE
    /\ Empty
    /\ budget = [calls |-> MaxCalls, failures |-> 0, edits |-> 0]

NextReminders ==
    \/ wait
    \/ schedule_reminders
    \/ \E j \in due : send_reminders(j)
    \/ \E j \in due : remind_team_member(j)

SpecReminders == InitReminders /\ [][NextReminders]_vars

\* every text of at most MaxLen characters out of a letter, a space and a newline
AllTexts == UNION {[1..n -> {"A", SP, NL}] : n \in 0..MaxLen}

\* Update.will_do_as_list and Update.blocker_as_list on every text: the one
\* member of team 1 has an update for today with that text in a field
InitText ==
    /\ now = At(7, 0, 0, 0)
    /\ team = (1 :> Team({0, 1, 2, 3, 4}, time(9, 0, 0), time(18, 0, 0), "u1", {})
            @@ 2 :> [Team({}, time(9, 0, 0), time(18, 0, 0), "u3", {})
                        EXCEPT !.exists = FALSE])
    /\ membership = (1 :> Membership(1, "u1", "Developer")
                  @@ 2 :> [Membership(1, "u2", "Developer") EXCEPT !.exists = FALSE]
                  @@ 3 :> [Membership(2, "u2", "Developer") EXCEPT !.exists = FALSE])
    /\ \E text \in AllTexts, field \in {"will_do", "blocker"} :
          updates = (1 :> <<Update(7, <<>>,
                                   IF field = "will_do" THEN text ELSE <<>>,
                                   IF field = "blocker" THEN text ELSE <<>>)>>
                  @@ 2 :> <<>>
                  @@ 3 :> <<>>)
    /\ site = TRUE
    /\ Empty
    /\ budget = [calls |-> MaxCalls, failures |-> 0, edits |-> 0]

NextText ==
    \/ \E t \in Teams : delay_send_reminders(t)
    \/ \E j \in due : send_reminders(j)
    \/ \E j \in due : remind_team_member(j)

SpecText == InitText /\ [][NextText]_vars

\* the whole system with a transport that works, its rows being switched
\* between active and inactive while messages are pending
InitRecheck ==
    /\ now = At(5, 0, 0, 0)
    /\ Database({0, 1, 2, 3, 4}, {})
    /\ Empty
    /\ budget = [calls |-> MaxCalls, failures |-> 0, edits |-> MaxChanges]

NextRecheck ==
    \/ Tick
    \/ schedule_reminders
    \/ schedule_digest
    \/ \E j \in due : send_reminders(j)
    \/ \E j \in due : remind_team_member(j)
    \/ \E j \in due : send_digest(j)
    \/ \E t \in Teams : set_team_active(t)
    \/ \E m \in Memberships : set_membership_active(m)

SpecRecheck == InitRecheck /\ [][NextRecheck]_vars

\* the two send executors over every configuration of the Site row and of the
\* roles of team 1's memberships: a Membership may reference no role
\* (null=True), and the Site row with pk=1 may be missing
InitContext ==
    /\ now = At(7, 0, 0, 0)
    /\ \E a1, a2 \in BOOLEAN, r1, r2 \in Roles \cup {None}, owner \in {"u1", "u3"} :
          /\ team = (1 :> Team({0, 1, 2, 3, 4}, time(9, 0, 0), time(18, 0, 0),
                               owner, {"u4"})
                  @@ 2 :> Team({0, 1, 2, 3, 4}, time(7, 30, 15), time(23, 30, 0),
                               "u3", {}))
          /\ membership =
                (1 :> [Membership(1, "u1", r1) EXCEPT !.is_active = a1]
              @@ 2 :> [Membership(1, "u2", r2) EXCEPT !.is_active = a2]
              @@ 3 :> Membership(2, "u2", "Project Manager"))
    /\ updates = (1 :> <<Update(7, <<"A">>, <<"A">>, <<>>)>>
               @@ 2 :> <<>>
               @@ 3 :> <<>>)
    /\ site \in BOOLEAN
    /\ Empty
    /\ budget = [calls |-> MaxCalls, failures |-> 0, edits |-> 0]

NextContext ==
    \/ \E t \in Teams, pm \in BOOLEAN :
          delay_send_digest(t, [t |-> At(7, 1, 0, 0), off |-> UTC], pm)
    \/ \E m \in Memberships : delay_remind_team_member(m)
    \/ \E j \in due : remind_team_member(j)
    \/ \E j \in due : send_digest(j)

SpecContext == InitContext /\ [][NextContext]_vars

\* the two send executors on a fair queue and a transport that may fail: a
\* message whose ETA has come is eventually handed to a worker, and a pending
\* countdown eventually runs out.  The Site row may be missing and the first
\* membership may reference no role.
InitChain ==
    /\ now = At(7, 0, 0, 0)
    /\ \E r1 \in {"Developer", None}, a2 \in BOOLEAN :
          /\ team = (1 :> Team({0, 1, 2, 3, 4}, time(9, 0, 0), time(18, 0, 0),
                               "u1", {"u2", "u4"})
                  @@ 2 :> Team({0, 1, 2, 3, 4}, time(7, 30, 15), time(23, 30, 0),
                               "u3", {}))
          /\ membership =
                (1 :> Membership(1, "u1", r1)
              @@ 2 :> [Membership(1, "u2", "Project Manager") EXCEPT !.is_active = a2]
              @@ 3 :> [Membership(2, "u2", "Project Manager") EXCEPT !.is_active = FALSE])
    /\ updates = (1 :> <<Update(7, <<"A">>, <<"A">>, <<>>)>>
               @@ 2 :> <<>>
               @@ 3 :> <<>>)
    /\ site \in BOOLEAN
    /\ Empty
    /\ budget = [calls |-> MaxCalls, failures |-> MaxSendFailures, edits |-> 0]

NextChain ==
    \/ wait
    \/ \E t \in Teams, pm \in BOOLEAN :
          delay_send_digest(t, [t |-> At(7, 1, 0, 0), off |-> UTC], pm)
    \/ \E m \in Memberships : delay_remind_team_member(m)
    \/ \E j \in due : remind_team_member(j)
    \/ \E j \in due : send_digest(j)

SpecChain ==
    /\ InitChain
    /\ [][NextChain]_vars
    /\ WF_vars(wait)
    /\ WF_vars(\E j \in due : remind_team_member(j))
    /\ WF_vars(\E j \in due : send_digest(j))

\* the reminders of the members of one team under a failing transport: the
\* team's reminders are sent out by hand, and each member's message is
\* executed, retried and delivered on its own
InitMembers ==
    /\ now = At(7, 0, 0, 0)
    /\ Database({0, 1, 2, 3, 4}, {0, 1, 2, 3, 4})
    /\ Empty
    /\ budget = [calls |-> MaxCalls, failures |-> MaxSendFailures, edits |-> 0]

NextMembers ==
    \/ wait
    \/ delay_send_reminders(1)
    \/ \E j \in due : send_reminders(j)
    \/ \E j \in due : remind_team_member(j)

SpecMembers == InitMembers /\ [][NextMembers]_vars

\* the five tasks from Monday 00:00:30 in Asia/Manila on, with a transport
\* that may fail, while teams and memberships are switched between active and
\* inactive beside them
InitFrame ==
    /\ now = At(6, 16, 0, 30)
    /\ Database({0, 1, 2, 3, 4}, {})
    /\ Empty
    /\ budget = [calls |-> MaxCalls, failures |-> MaxFailures, edits |-> MaxChanges]

NextFrame ==
    \/ Tick
    \/ schedule_reminders
    \/ schedule_digest
    \/ \E j \in due : send_reminders(j)
    \/ \E j \in due : remind_team_member(j)
    \/ \E j \in due : send_digest(j)
    \/ \E t \in Teams : set_team_active(t)
    \/ \E m \in Memberships : set_membership_active(m)

SpecFrame == InitFrame /\ [][NextFrame]_vars

\* the digests of a team that sends at 00:30:00, at 08:30:00 or at 09:00:00:
\* an hour before the first it is still the day before in Asia/Manila, and an
\* hour before the second it is still the day before in UTC
InitForDate ==
    /\ now \in {At(6, 16, 0, 30), At(7, 0, 0, 0)}
    /\ \E at \in {time(0, 30, 0), time(8, 30, 0), time(9, 0, 0)}, a1, a2 \in BOOLEAN :
          /\ team = (1 :> Team({0, 1, 2, 3, 4}, at, time(18, 0, 0), "u1", {"u2", "u4"})
                  @@ 2 :> Team({0, 1, 2, 3, 4}, time(7, 30, 15), time(23, 30, 0),
                               "u3", {}))
          /\ membership =
                (1 :> [Membership(1, "u1", "Developer") EXCEPT !.is_active = a1]
              @@ 2 :> [Membership(1, "u2", "Project Manager") EXCEPT !.is_active = a2]
              @@ 3 :> Membership(2, "u2", "Project Manager"))
    /\ updates = (1 :> <<Update(6, <<"A">>, <<"A">>, <<>>),
                         Update(7, <<"B">>, <<"B">>, <<>>)>>
               @@ 2 :> <<>>
               @@ 3 :> <<>>)
    /\ site = TRUE
    /\ Empty
    /\ budget = [calls |-> MaxCalls, failures |-> 0, edits |-> 0]

NextForDate ==
    \/ wait
    \/ schedule_digest
    \/ \E j \in due : send_digest(j)

SpecForDate == InitForDate /\ [][NextForDate]_vars

\* the schedulers called more than once on a Monday of Asia/Manila, over
\* every configuration of send days
InitRepeat ==
    /\ now \in {At(6, 16, 0, 30), At(7, 0, 0, 0)}
    /\ \E d1, d2 \in DaySets : Database(d1, d2)
    /\ Empty
    /\ budget = [calls |-> MaxCalls + 1, failures |-> 0, edits |-> 0]

NextRepeat ==
    \/ Tick
    \/ schedule_reminders
    \/ schedule_digest

SpecRepeat == InitRepeat /\ [][NextRepeat]_vars

-----------------------------------------------------------------------------
(* The schedulers on a queue that may refuse a message.  Neither loop has  *)
(* a try/except: an exception raised by apply_async leaves the task at     *)
(* once, with the messages sent so far in the queue.                       *)

\* the call raises at one of its apply_async calls, after n messages
raises(jobs) ==
    /\ budget.calls > 0
    /\ budget.failures > 0
    /\ budget' = [budget EXCEPT !.calls = budget.calls - 1,
                                !.failures = budget.failures - 1]
    /\ \E n \in 0..(Len(jobs) - 1) : queue' = enqueue_all(queue, SubSeq(jobs, 1, n))
    /\ UNCHANGED <<now, team, membership, updates, site, outbox, executed>>

\* schedule_reminders when send_reminders.apply_async raises
schedule_reminders_raises == raises(reminder_jobs(active_teams))

\* schedule_digest when one of its two send_digest.apply_async calls raises
schedule_digest_raises == raises(digest_jobs(active_teams))

\* two Monday-to-Friday teams, over every set of active memberships
InitBatch ==
    /\ now \in Instants
    /\ \E a1, a2, a3 \in BOOLEAN :
          /\ team = (1 :> Team({0, 1, 2, 3, 4}, time(9, 0, 0), time(18, 0, 0),
                               "u1", {"u2", "u4"})
                  @@ 2 :> Team({0, 1, 2, 3, 4}, time(7, 30, 15), time(23, 30, 0),
                               "u3", {}))
          /\ membership =
                (1 :> [Membership(1, "u1", "Developer") EXCEPT !.is_active = a1]
              @@ 2 :> [Membership(1, "u2", "Project Manager") EXCEPT !.is_active = a2]
              @@ 3 :> [Membership(2, "u2", "Project Manager") EXCEPT !.is_active = a3])
    /\ updates = [m \in Memberships |-> <<>>]
    /\ site = TRUE
    /\ Empty
    /\ budget = [calls |-> MaxCalls, failures |-> MaxFailures, edits |-> 0]

NextBatch ==
    \/ Tick
    \/ schedule_reminders
    \/ schedule_digest
    \/ schedule_reminders_raises
    \/ schedule_digest_raises

SpecBatch == InitBatch /\ [][NextBatch]_vars

-----------------------------------------------------------------------------
(* Properties.  They are stated on the stored data, the queue, the outbox  *)
(* and the execution records, not through the operators of the tasks.      *)

\* message k was sent in this step
sent(k) == CopiesIn(k, queue') > CopiesIn(k, queue)

\* message j was taken by a worker in this step
taken(j) == CopiesIn(j, queue') < CopiesIn(j, queue)

\* email e went out in this step
mailed(e) == CopiesIn(e, outbox') > CopiesIn(e, outbox)

\* execution record r was written in this step
recorded(r) == CopiesIn(r, executed') > CopiesIn(r, executed)

\* the number of messages of a set of shapes in a bag
RECURSIVE copies(_, _)
copies(q, S) ==
    IF S = {} THEN 0
    ELSE LET k == CHOOSE x \in S : TRUE
         IN  CopiesIn(k, q) + copies(q, S \ {k})

\* the number of first sends of a task for an id in a bag
count(q, task, id) ==
    copies(q, {k \in BagToSet(q) : k.task = task /\ k.id = id /\ k.retries = 0})

\* the number of first sends of a task for an id in this step
sent_for(task, id) == count(queue', task, id) - count(queue, task, id)

\* a scheduler was called in this step
scheduler_call == budget'.calls < budget.calls

\* the memberships of team t that exist and are active
ActiveMembers(t) ==
    {m \in Memberships :
        membership[m].exists /\ membership[m].team = t /\ membership[m].is_active}

\* team t exists and is active
ActiveTeam(t) == team[t].exists /\ team[t].is_active

\* team t is active, has a send day and has an active membership
Eligible(t) ==
    /\ ActiveTeam(t)
    /\ team[t].digest_days_sent # {}
    /\ ActiveMembers(t) # {}

\* the calendar day and the weekday of now in Asia/Manila (UTC+8)
ManilaDate == (now + 8 * 3600) \div 86400
ManilaWeekday == ManilaDate % 7

\* the instant of a time of day on a calendar day of Asia/Manila
at_time(day, tm) ==
    day * 86400 + tm.hour * 3600 + tm.minute * 60 + tm.second - 8 * 3600

\* team t is eligible and today, in Asia/Manila, is one of its send days
DueToday(t) == Eligible(t) /\ ManilaWeekday \in team[t].digest_days_sent

\* C1: an execution of remind_team_member or send_digest whose send fails
\* sends nothing and registers exactly one retry of the same message, 300
\* seconds from now, as long as fewer than 5 retries were made; on the
\* failure after the 5th retry no message is registered and the execution
\* is recorded as failed.
C1_RetryOnTransportFailure ==
    [][budget'.failures < budget.failures =>
        \E j \in BagToSet(queue) :
            /\ j.task \in {"remind_team_member", "send_digest"}
            /\ j.eta.t <= now
            /\ outbox' = outbox
            /\ IF j.retries < 5
               THEN queue' = (queue (-) SetToBag({j}))
                             (+) SetToBag({[j EXCEPT !.retries = j.retries + 1,
                                                     !.eta = [t |-> now + 300,
                                                              off |-> 0]]})
               ELSE /\ queue' = queue (-) SetToBag({j})
                    /\ \E r \in BagToSet(executed') :
                          /\ recorded(r)
                          /\ r.task = j.task /\ r.id = j.id /\ r.pm = j.pm
                          /\ r.retries = 5
                          /\ r.outcome = "failed"]_vars

\* C1 witness: a send failed after its 5th retry and nothing of that task is
\* pending for that target
C1_RetriesExhausted ==
    \E r \in BagToSet(executed) :
        /\ r.outcome = "failed"
        /\ r.retries = 5
        /\ \A k \in BagToSet(queue) : ~(k.task = r.task /\ k.id = r.id /\ k.pm = r.pm)

\* the permanent skip conditions of message j, on the stored data
PermanentSkip(j) ==
    \/ /\ j.task \in {"send_reminders", "send_digest"}
       /\ (~ActiveTeam(j.id) \/ ActiveMembers(j.id) = {})
    \/ /\ j.task = "remind_team_member"
       /\ ~(membership[j.id].exists /\ membership[j.id].is_active)

\* C2: an execution that meets a permanent skip condition (team missing or
\* inactive, no active membership, membership missing or inactive, or the
\* Mandrill account lookup raising) sends no email and registers no message;
\* and a retry is registered only by an execution whose send failed.
C2_PermanentSkipsNeverRetry ==
    [][/\ \A j \in BagToSet(queue) :
            taken(j) /\ PermanentSkip(j) =>
                outbox' = outbox /\ queue' = queue (-) SetToBag({j})
       /\ \A j \in BagToSet(queue) :
            taken(j) /\ (\E r \in BagToSet(executed') :
                            recorded(r) /\ r.outcome = "bad_account") =>
                outbox' = outbox /\ queue' = queue (-) SetToBag({j})
       /\ \A k \in BagToSet(queue') :
            sent(k) /\ k.retries > 0 =>
                budget'.failures < budget.failures /\ outbox' = outbox]_vars

\* C2 witness: a reminder was executed for a membership that is inactive or
\* gone, and no email left
C2_SkipsHappened ==
    \E r \in BagToSet(executed) :
        /\ r.task = "remind_team_member"
        /\ r.outcome = "no_membership"
        /\ ~(membership[r.id].exists /\ membership[r.id].is_active)
        /\ \A e \in BagToSet(outbox) :
              e.kind = "reminder" => e.to # <<recipient(membership[r.id].user)>>

\* C3 (as the specification states it): a schedule_digest call enqueues, for
\* every eligible team on one of its send days, exactly two send_digest
\* messages: one not flagged for project managers with its ETA at
\* send_digest_at of today (Asia/Manila), one flagged with its ETA 60 minutes
\* before.
C3_DigestEtaAtConfiguredTime ==
    [][scheduler_call /\ (\E k \in BagToSet(queue') : sent(k) /\ k.task = "send_digest") =>
        \A t \in Teams :
            DueToday(t) =>
                /\ sent_for("send_digest", t) = 2
                /\ \E a, b \in BagToSet(queue') :
                      /\ sent(a) /\ a.task = "send_digest" /\ a.id = t
                      /\ ~a.pm
                      /\ a.eta.t = at_time(ManilaDate, team[t].send_digest_at)
                      /\ sent(b) /\ b.task = "send_digest" /\ b.id = t
                      /\ b.pm
                      /\ b.eta.t = at_time(ManilaDate, team[t].send_digest_at)
                                   - 60 * 60]_vars

C5_ReminderEtaAtConfiguredTime ==
    [][scheduler_call /\ (\E k \in BagToSet(queue') : sent(k) /\ k.task = "send_reminders") =>
        \A t \in Teams :
            DueToday(t) =>
                /\ sent_for("send_reminders", t) = 1
                /\ \A k \in BagToSet(queue') :
                      sent(k) /\ k.id = t =>
                          k.eta.t = at_time(ManilaDate, team[t].send_reminders_at)]_vars

\* C6: no message is ever enqueued by a scheduler for a team whose set of
\* send days is empty.
C6_NoDaysNoJobs ==
    \A k \in BagToSet(queue) : team[k.id].digest_days_sent # {}

\* C6 witness: a scheduler call enqueued messages while an active team with
\* an active membership had no send days
C6_TeamWithoutDaysPassedOver ==
    /\ budget.calls < MaxCalls
    /\ queue # EmptyBag
    /\ \E t \in Teams :
          /\ ActiveTeam(t)
          /\ ActiveMembers(t) # {}
          /\ team[t].digest_days_sent = {}

\* C7: while a team is inactive, a scheduler call enqueues nothing for it, an
\* execution of send_reminders for it enqueues nothing and does not call
\* Mandrill, and an execution of send_digest for it sends no email.
C7_InactiveTeamsAreSkipped ==
    [][\A t \in Teams :
         team[t].exists /\ ~team[t].is_active =>
            /\ scheduler_call => \A k \in BagToSet(queue') : sent(k) => k.id # t
            /\ \A j \in BagToSet(queue) :
                  taken(j) /\ j.task = "send_reminders" /\ j.id = t =>
                      /\ queue' = queue (-) SetToBag({j})
                      /\ \A r \in BagToSet(executed') : recorded(r) => ~r.lookup
            /\ \A j \in BagToSet(queue) :
                  taken(j) /\ j.task = "send_digest" /\ j.id = t =>
                      outbox' = outbox /\ queue' = queue (-) SetToBag({j})]_vars

\* C7 witness: an inactive team's send_reminders message was executed
C7_InactiveTeamExecuted ==
    \E t \in Teams :
        /\ team[t].exists
        /\ ~team[t].is_active
        /\ \E r \in BagToSet(executed) :
              r.task = "send_reminders" /\ r.id = t /\ r.outcome = "no_team"

\* C8: in a scheduler call, messages are enqueued only for eligible teams
\* (active, at least one send day, at least one active membership), and an
\* eligible team on one of its send days gets the messages of one pass
\* (one send_reminders, or two send_digest), however many active memberships
\* it has.
C8_EligibleTeamsOncePerCall ==
    [][scheduler_call =>
        \A t \in Teams :
            LET r == sent_for("send_reminders", t)
                d == sent_for("send_digest", t)
            IN  /\ (\E k \in BagToSet(queue') : sent(k) /\ k.id = t) => Eligible(t)
                /\ DueToday(t) => (r = 1 /\ d = 0) \/ (r = 0 /\ d = 2)
                /\ ~DueToday(t) => r = 0 /\ d = 0]_vars

\* C8 witness: after a scheduler call, a team with two active memberships
\* has one send_reminders message, and an inactive team with send days and an
\* active membership has none
C8_OnceForTwoMemberships ==
    /\ budget.calls < MaxCalls
    /\ \E t \in Teams :
          /\ Cardinality(ActiveMembers(t)) = 2
          /\ count(queue, "send_reminders", t) = 1
    /\ \E t \in Teams :
          /\ team[t].exists /\ ~team[t].is_active
          /\ team[t].digest_days_sent # {}
          /\ ActiveMembers(t) # {}
          /\ \A k \in BagToSet(queue) : k.id # t

\* the addresses of a set of users
Addresses(us) == {user_email(u) : u \in us}

\* a sequence without repeated elements
NoDuplicates(s) == \A i, k \in DOMAIN s : s[i] = s[k] => i = k

\* C9: the email of a send_digest execution not flagged for project managers
\* goes to the union, without duplicates, of the addresses of the team's
\* active members, of its silent recipients and of its owner.
C9_DigestRecipientsUnion ==
    [][\A j \in BagToSet(queue) :
         taken(j) /\ j.task = "send_digest" /\ ~j.pm =>
            \A e \in BagToSet(outbox') :
                mailed(e) =>
                    /\ NoDuplicates(e.to)
                    /\ Range(e.to) =
                          Addresses({membership[m].user : m \in ActiveMembers(j.id)}
                                    \cup team[j.id].silent_recipients
                                    \cup {team[j.id].created_by})]_vars

\* C9 witness: a digest went to two addresses for a team whose owner is also
\* its active member and a silent recipient, and whose other member is inactive
C9_OverlappingRecipients ==
    \E e \in BagToSet(outbox) :
        /\ e.kind = "digest"
        /\ e.team = 1
        /\ Len(e.to) = 2
        /\ team[1].created_by = "u2"
        /\ team[1].silent_recipients = {"u2", "u4"}
        /\ ~membership[1].is_active
        /\ membership[2].is_active

C11_NoMembersNoDigest ==
    [][\A j \in BagToSet(queue) :
         taken(j) /\ j.task = "send_digest" /\ ActiveMembers(j.id) = {} =>
            /\ outbox' = outbox
            /\ queue' = queue (-) SetToBag({j})
            /\ ActiveTeam(j.id) =>
                  \E r \in BagToSet(executed') :
                      recorded(r) /\ r.task = "send_digest" /\ r.id = j.id
                      /\ r.log = "error"]_vars

\* C11 witness: a flagged send_digest was executed for team 1, which is
\* active and has an owner, silent recipients, an update and inactive
\* memberships only
C11_FlaggedDigestWithoutMembers ==
    /\ ActiveTeam(1)
    /\ ActiveMembers(1) = {}
    /\ updates[1] # <<>>
    /\ team[1].silent_recipients # {}
    /\ \E r \in BagToSet(executed) :
          r.task = "send_digest" /\ r.id = 1 /\ r.pm /\ r.log = "error"
    /\ outbox = EmptyBag

\* C12: an execution of remind_team_member for a membership id that does not
\* exist, or whose membership is inactive, sends no email, registers no
\* message and returns after logging.
C12_NoMembershipNoReminder ==
    [][\A j \in BagToSet(queue) :
         /\ taken(j)
         /\ j.task = "remind_team_member"
         /\ ~(membership[j.id].exists /\ membership[j.id].is_active)
         => /\ outbox' = outbox
            /\ queue' = queue (-) SetToBag({j})
            /\ \E r \in BagToSet(executed') :
                  recorded(r) /\ r.task = "remind_team_member" /\ r.id = j.id
                  /\ r.outcome = "no_membership"]_vars

\* C12 witness: a reminder was executed for a membership id without a row
C12_UnknownMembershipId ==
    \E r \in BagToSet(executed) :
        /\ r.task = "remind_team_member"
        /\ ~membership[r.id].exists
        /\ r.outcome = "no_membership"
        /\ outbox = EmptyBag

\* the updates of membership m for a calendar day
UpdatesOn(m, day) == {i \in DOMAIN updates[m] : updates[m][i].for_date = day}

\* membership m has an update for a calendar day with text in will_do or blocker
HasPlans(m, day) ==
    \E i \in UpdatesOn(m, day) :
        /\ \A k \in UpdatesOn(m, day) : i <= k
        /\ (updates[m][i].will_do # <<>> \/ updates[m][i].blocker # <<>>)

\* the remind_team_member messages sent in this step for membership m
reminders_sent(m) ==
    {k \in BagToSet(queue') : sent(k) /\ k.task = "remind_team_member" /\ k.id = m}

\* an execution of send_reminders for team t passed its validations in this step
reminders_fanned_out(t) ==
    \E r \in BagToSet(executed') :
        recorded(r) /\ r.task = "send_reminders" /\ r.id = t /\ r.outcome = "enqueued"

\* C13 (as the specification states it): an execution of send_reminders that
\* passes its validations sends exactly one remind_team_member message for
\* each active membership of the team and none for any other membership, and
\* the message carries the two line lists if and only if the member has an
\* update for today, the Asia/Manila day of now, with text in will_do or
\* blocker.
C13_OneReminderPerActiveMember ==
    [][\A t \in Teams :
         reminders_fanned_out(t) =>
            \A m \in Memberships :
                IF m \in ActiveMembers(t)
                THEN /\ copies(queue', reminders_sent(m)) - copies(queue, reminders_sent(m)) = 1
                     /\ \A k \in reminders_sent(m) :
                           (k.todos # <<>> /\ k.blockers # <<>>) <=> HasPlans(m, ManilaDate)
                ELSE reminders_sent(m) = {}]_vars

\* C14: send_reminders calls Mandrill only for a team that it found active
\* and with an active membership, and it calls Mandrill for every such team;
\* when the lookup raises, the execution logs it and sends no message.
C14_LookupAfterTheOtherChecks ==
    [][\A j \in BagToSet(queue) :
         taken(j) /\ j.task = "send_reminders" =>
            \A r \in BagToSet(executed') :
                recorded(r) =>
                    /\ r.lookup <=> (ActiveTeam(j.id) /\ ActiveMembers(j.id) # {})
                    /\ r.outcome = "bad_account" =>
                          /\ r.log = "exception"
                          /\ queue' = queue (-) SetToBag({j})
                          /\ outbox' = outbox]_vars

\* C14 witness: the lookup raised for an active team with an active
\* membership, and nothing is pending
C14_InvalidAccount ==
    \E r \in BagToSet(executed) :
        /\ r.task = "send_reminders"
        /\ r.outcome = "bad_account"
        /\ ActiveTeam(r.id)
        /\ ActiveMembers(r.id) # {}
        /\ queue = EmptyBag

\* C15 (as the specification states it): the message that send_reminders
\* sends for a member carries the line lists of the member's update for the
\* Asia/Manila day the scheduler put the ETA on, and carries none when the
\* member has no update with text for that day.
C15_ReminderForTheBusinessDay ==
    [][\A j \in BagToSet(queue) :
         taken(j) /\ j.task = "send_reminders" /\ reminders_fanned_out(j.id) =>
            LET day == (j.eta.t + 8 * 3600) \div 86400
            IN  \A m \in ActiveMembers(j.id) :
                    \A k \in reminders_sent(m) :
                        IF HasPlans(m, day)
                        THEN \E i \in UpdatesOn(m, day) :
                                /\ k.todos = <<as_list(updates[m][i].will_do)>>
                                /\ k.blockers = <<as_list(updates[m][i].blocker)>>
                        ELSE k.todos = <<>> /\ k.blockers = <<>>]_vars

\* C16 (as the specification states it): the update shown for a member in a
\* digest is the member's update for the day printed in the subject, the
\* Asia/Manila day of for_date, and none is shown only when the member has no
\* update for that day.
C16_RosterForTheSubjectDay ==
    \A e \in BagToSet(outbox) :
        e.kind = "digest" =>
            \A i \in DOMAIN e.roster :
                IF e.roster[i].update = <<>>
                THEN \A m \in Memberships :
                        membership[m].exists /\ membership[m].team = e.team
                        /\ membership[m].user = e.roster[i].member
                        => UpdatesOn(m, e.date) = {}
                ELSE e.roster[i].update[1].for_date = e.date

\* a text without its leading and trailing spaces and newlines
RECURSIVE Trimmed(_)
Trimmed(s) ==
    IF s # <<>> /\ Head(s) \in {" ", "\n"} THEN Trimmed(Tail(s))
    ELSE IF s # <<>> /\ s[Len(s)] \in {" ", "\n"} THEN Trimmed(SubSeq(s, 1, Len(s) - 1))
    ELSE s

\* the lines of a text: the pieces between its newlines
RECURSIVE Lines(_)
Lines(s) ==
    IF \E i \in DOMAIN s : s[i] = "\n"
    THEN LET k == CHOOSE i \in DOMAIN s : s[i] = "\n" /\ \A h \in 1..(i - 1) : s[h] # "\n"
         IN  <<SubSeq(s, 1, k - 1)>> \o Lines(SubSeq(s, k + 1, Len(s)))
    ELSE <<s>>

\* the lines of a text, each trimmed, without those that are empty then
RECURSIVE TrimmedLines(_)
TrimmedLines(ls) ==
    IF ls = <<>> THEN <<>>
    ELSE (IF Trimmed(Head(ls)) # <<>> THEN <<Trimmed(Head(ls))>> ELSE <<>>)
         \o TrimmedLines(Tail(ls))

\* C17 (as the specification states it): the line lists that a reminder
\* carries, made by will_do_as_list and blocker_as_list, are the lines of the
\* field in order, empty and whitespace-only lines dropped, every line
\* without surrounding whitespace.
C17_LinesAreTrimmed ==
    \A k \in BagToSet(queue) :
        k.task = "remind_team_member" /\ k.todos # <<>> =>
            \E i \in DOMAIN updates[k.id] :
                /\ k.todos[1] = TrimmedLines(Lines(updates[k.id][i].will_do))
                /\ k.blockers[1] = TrimmedLines(Lines(updates[k.id][i].blocker))

\* C18: an execution of send_reminders or send_digest that finds its team
\* deactivated since the message was sent, and an execution of
\* remind_team_member that finds its membership deactivated since, sends no
\* email and registers no message.
C18_RecheckedAtExecution ==
    [][\A j \in BagToSet(queue) :
         /\ taken(j)
         /\ \/ /\ j.task \in {"send_reminders", "send_digest"}
               /\ team[j.id].exists /\ ~team[j.id].is_active
            \/ /\ j.task = "remind_team_member"
               /\ membership[j.id].exists /\ ~membership[j.id].is_active
         => /\ \A e \in BagToSet(outbox') : ~mailed(e)
            /\ \A k \in BagToSet(queue') : ~sent(k)]_vars

\* C18 witness: the digest of a team that was deactivated after the
\* scheduler's call was executed and nothing went out
C18_DeactivatedBeforeTheDigest ==
    /\ budget.edits < MaxChanges
    /\ \E r \in BagToSet(executed) :
          /\ r.task = "send_digest"
          /\ team[r.id].exists /\ ~team[r.id].is_active
          /\ r.outcome = "no_team"
    /\ outbox = EmptyBag

\* message j has been executed before and its email went out
AlreadySent(j) ==
    \E r \in BagToSet(executed) :
        /\ r.task = j.task /\ r.id = j.id /\ r.pm = j.pm /\ r.retries = j.retries
        /\ r.outcome = "sent"

\* C19 (as the specification states it): when a send_digest or
\* remind_team_member message whose email went out is executed once more on
\* unchanged data, no email that is already out goes out again.
C19_SecondRunSendsNothing ==
    [][\A j \in BagToSet(queue) :
         /\ taken(j)
         /\ j.task \in {"send_digest", "remind_team_member"}
         /\ AlreadySent(j)
         => \A e \in BagToSet(outbox') : mailed(e) => CopiesIn(e, outbox) = 0]_vars

\* C20 (as the specification states it): in every call of a scheduler, also
\* one in which processing a team fails, every eligible team that is due
\* today gets its send_reminders message or its two send_digest messages.
C20_FailureDoesNotStopTheLoop ==
    [][scheduler_call /\ (\E k \in BagToSet(queue') : sent(k)) =>
        \A t \in Teams :
            DueToday(t) =>
                \/ sent_for("send_reminders", t) = 1
                \/ sent_for("send_digest", t) = 2]_vars


\* every active membership of team t references a role
AllHaveRoles(t) == \A m \in ActiveMembers(t) : membership[m].role # "None"

\* C21 (as the specification states it): when the Site row is missing, an
\* execution of remind_team_member for an active membership, and an execution
\* of send_digest for an active team with active memberships, still sends
\* its email, and the missing configuration is logged as an error.
C21_SendsWithoutTheDomain ==
    [][\A j \in BagToSet(queue) :
         /\ taken(j)
         /\ ~site
         /\ \/ /\ j.task = "remind_team_member"
               /\ membership[j.id].exists /\ membership[j.id].is_active
            \/ /\ j.task = "send_digest"
               /\ ActiveTeam(j.id) /\ ActiveMembers(j.id) # {} /\ AllHaveRoles(j.id)
         => /\ \E e \in BagToSet(outbox') : mailed(e) /\ e.team \in Teams
            /\ \E r \in BagToSet(executed') :
                  recorded(r) /\ r.task = j.task /\ r.id = j.id /\ r.log = "error"]_vars

\* C25 (as the specification states it): an execution of send_digest for an
\* active team with an active membership, the Site row being there, sends
\* the digest, and the roster of the digest has exactly one entry for every
\* active membership of the team, with or without a role, and none for any
\* other; an entry shows no update when the member has none for the date.
C25_RosterOfEveryActiveMember ==
    [][\A j \in BagToSet(queue) :
         /\ taken(j)
         /\ j.task = "send_digest"
         /\ site
         /\ ActiveTeam(j.id)
         /\ ActiveMembers(j.id) # {}
         => \E e \in BagToSet(outbox') :
               /\ mailed(e)
               /\ e.kind = "digest" /\ e.team = j.id
               /\ Len(e.roster) = Cardinality(ActiveMembers(j.id))
               /\ \A m \in ActiveMembers(j.id) :
                     \E i \in DOMAIN e.roster :
                        /\ e.roster[i].member = membership[m].user
                        /\ e.roster[i].role = membership[m].role
                        /\ UpdatesOn(m, j.for_date.t \div 86400) = {}
                              => e.roster[i].update = <<>>]_vars

\* the addresses of the active members of team t whose role is Project Manager
ProjectManagers(t) ==
    {user_email(membership[m].user) :
        m \in {k \in ActiveMembers(t) : membership[k].role = "Project Manager"}}

\* C26 (as the documentation of get_recipients and send_digest states it):
\* the email of a send_digest execution flagged for project managers goes
\* only to members of the team whose role is Project Manager.
C26_PMDigestToProjectManagers ==
    [][\A j \in BagToSet(queue) :
         taken(j) /\ j.task = "send_digest" /\ j.pm =>
            \A e \in BagToSet(outbox') :
                mailed(e) => Range(e.to) \subseteq ProjectManagers(j.id)]_vars

\* the messages of a chain: those of one task for one target and flag
Chain(task, id, pm) ==
    {k \in BagToSet(queue) : k.task = task /\ k.id = id /\ k.pm = pm}

\* a chain has ended: none of its messages is pending and its last execution
\* was a skip, a delivery or the failure of its sixth attempt
Ended(task, id, pm) ==
    /\ Chain(task, id, pm) = {}
    /\ \E r \in BagToSet(executed) :
          /\ r.task = task /\ r.id = id /\ r.pm = pm
          /\ \/ r.outcome \in {"no_membership", "no_team", "no_members", "sent"}
             \/ r.outcome = "failed" /\ r.retries = 5

\* an execution of message j is one step of the state machine: a skip out of
\* the validation, a delivery, a retry after a failed send with fewer than 5
\* retries made, or the failure of the send of the sixth attempt
OneStepOfTheMachine(j) ==
    \E r \in BagToSet(executed') :
        /\ recorded(r)
        /\ r.task = j.task /\ r.id = j.id /\ r.pm = j.pm /\ r.retries = j.retries
        /\ \/ /\ r.outcome \in {"no_membership", "no_team", "no_members"}
              /\ PermanentSkip(j)
              /\ outbox' = outbox
              /\ queue' = queue (-) SetToBag({j})
           \/ /\ r.outcome = "sent"
              /\ ~PermanentSkip(j)
              /\ \E e \in BagToSet(outbox') : mailed(e)
              /\ queue' = queue (-) SetToBag({j})
           \/ /\ r.outcome = "retry"
              /\ ~PermanentSkip(j)
              /\ j.retries < 5
              /\ outbox' = outbox
              /\ budget'.failures < budget.failures
              /\ \E k \in BagToSet(queue') : sent(k) /\ k.retries = j.retries + 1
           \/ /\ r.outcome = "failed"
              /\ ~PermanentSkip(j)
              /\ j.retries = 5
              /\ outbox' = outbox
              /\ budget'.failures < budget.failures
              /\ queue' = queue (-) SetToBag({j})

\* C22 (as the specification states it): on a fair queue every chain of
\* remind_team_member or send_digest executions ends, as skipped, sent or
\* failed; no message is ever on a retry beyond the fifth, so that a chain
\* makes at most 6 attempts; a chain is skipped only out of the validation,
\* and is sent or failed only by an attempt to send.
C22_EveryChainEnds ==
    /\ [][\A j \in BagToSet(queue) :
            taken(j) /\ j.task \in {"remind_team_member", "send_digest"} =>
                j.retries <= 5 /\ OneStepOfTheMachine(j)]_vars
    /\ \A task \in {"remind_team_member", "send_digest"}, id \in Memberships,
          pm \in BOOLEAN :
          (Chain(task, id, pm) # {}) ~> Ended(task, id, pm)

\* C23: an execution of one member's remind_team_member, delivered, retried
\* or failed for good, leaves every message of every other member as it is
\* (neither removed nor delayed), sends nothing for another member and mails
\* no one but its own member; a fan-out of send_reminders gives every active
\* member a message that is due at once, whatever the other members' chains
\* are doing; and every due reminder can be executed.
C23_MembersAreIndependent ==
    /\ [][\A j \in BagToSet(queue) :
            taken(j) /\ j.task = "remind_team_member" =>
                /\ \A k \in BagToSet(queue) \cup BagToSet(queue') :
                      ~(k.task = "remind_team_member" /\ k.id = j.id) =>
                          CopiesIn(k, queue') = CopiesIn(k, queue)
                /\ \A e \in BagToSet(outbox') :
                      mailed(e) => e.to = <<recipient(membership[j.id].user)>>]_vars
    /\ [][\A t \in Teams :
            reminders_fanned_out(t) =>
                \A m \in ActiveMembers(t) :
                    \E k \in reminders_sent(m) : k.eta.t <= now /\ k.retries = 0]_vars
    /\ [](\A k \in BagToSet(queue) :
            k.task = "remind_team_member" /\ k.eta.t <= now =>
                ENABLED remind_team_member(k))

\* C23 witness: the reminder of one member of a team failed for good, after
\* its fifth retry, and the reminder of another member of the team, sent out
\* together with it, was delivered at its first attempt
C23_OneFailsTheOtherArrives ==
    \E a, b \in BagToSet(executed) :
        /\ a.task = "remind_team_member" /\ b.task = "remind_team_member"
        /\ a.id # b.id
        /\ membership[a.id].team = membership[b.id].team
        /\ a.outcome = "failed" /\ a.retries = 5
        /\ b.outcome = "sent" /\ b.retries = 0
        /\ \E e \in BagToSet(outbox) : e.to = <<recipient(membership[b.id].user)>>
        /\ \A e \in BagToSet(outbox) : e.to # <<recipient(membership[a.id].user)>>

\* C24 (as stated): whenever the email of a regular digest goes
\* out for a team, the email of the team's digest flagged for project
\* managers has gone out before.
C24_PreviewBeforeTheDigest ==
    [][\A r \in BagToSet(executed') :
         recorded(r) /\ r.task = "send_digest" /\ ~r.pm /\ r.outcome = "sent" =>
            \E p \in BagToSet(executed) :
                p.task = "send_digest" /\ p.id = r.id /\ p.pm /\ p.outcome = "sent"]_vars

\* C24 (amended): in a schedule_digest call, every regular send_digest
\* message is sent together with a flagged message for the same team whose
\* ETA is exactly one hour before its own, and with no other; the flagged
\* message is therefore due whenever the regular one is.
C24_PreviewDueAnHourEarlier ==
    [][scheduler_call =>
        \A a \in BagToSet(queue') :
            sent(a) /\ a.task = "send_digest" /\ ~a.pm =>
                /\ \E b \in BagToSet(queue') :
                      /\ sent(b) /\ b.task = "send_digest" /\ b.id = a.id /\ b.pm
                      /\ b.eta.t = a.eta.t - 3600
                /\ \A b \in BagToSet(queue') :
                      sent(b) /\ b.task = "send_digest" /\ b.id = a.id /\ b.pm =>
                          b.eta.t = a.eta.t - 3600]_vars

\* C24 witness: the scheduler was called after both ETAs of a team, so that
\* the two messages are pending and due together, an hour apart
C24_BothAlreadyDue ==
    \E a, b \in BagToSet(queue) :
        /\ a.task = "send_digest" /\ b.task = "send_digest"
        /\ a.id = b.id
        /\ ~a.pm /\ b.pm
        /\ b.eta.t = a.eta.t - 3600
        /\ a.eta.t < now

\* C27: a step in which a scheduler is called or a message is executed,
\* whether the execution sends, skips, retries or fails, leaves every Team
\* row (its silent recipients included), every Membership row and every
\* Update row as it was.
C27_TasksWriteNoRows ==
    [][scheduler_call \/ (\E j \in BagToSet(queue) : taken(j)) =>
        /\ team' = team
        /\ membership' = membership
        /\ updates' = updates]_vars

\* C27 witness: reminders were delivered, retried and skipped, and the rows
\* are the ones of the start but for the membership that was deactivated
C27_SentRetriedAndSkipped ==
    /\ \E r \in BagToSet(executed) : r.task = "send_reminders" /\ r.outcome = "enqueued"
    /\ \E r \in BagToSet(executed) : r.task = "remind_team_member" /\ r.outcome = "sent"
    /\ \E r \in BagToSet(executed) : r.task = "remind_team_member" /\ r.outcome = "retry"
    /\ \E r \in BagToSet(executed) :
          r.task = "remind_team_member" /\ r.outcome = "no_membership"
    /\ \A m \in Memberships : updates[m] # <<>> \/ m = 2
    /\ \A t \in Teams : team[t].is_active

\* C28: a retry is registered with the arguments of the execution that
\* failed (the id, the two line lists, for_date and the flag) and one more
\* retry counted; and a retried execution that finds its team, or its
\* membership, inactive sends no email and registers no message.
C28_RetryRevalidates ==
    [][/\ \A k \in BagToSet(queue') :
            sent(k) /\ k.retries > 0 =>
                \E j \in BagToSet(queue) :
                    /\ taken(j)
                    /\ k.task = j.task /\ k.id = j.id
                    /\ k.todos = j.todos /\ k.blockers = j.blockers
                    /\ k.for_date = j.for_date /\ k.pm = j.pm
                    /\ k.retries = j.retries + 1
       /\ \A j \in BagToSet(queue) :
            /\ taken(j)
            /\ j.retries > 0
            /\ \/ /\ j.task = "send_digest"
                  /\ ~(team[j.id].exists /\ team[j.id].is_active)
               \/ /\ j.task = "remind_team_member"
                  /\ ~(membership[j.id].exists /\ membership[j.id].is_active)
            => outbox' = outbox /\ queue' = queue (-) SetToBag({j})]_vars

\* C28 witness: the reminder of membership 1, which carries line lists, failed
\* once, the membership was deactivated while the retry was pending, and the
\* retried execution skipped without an email to the member
C28_DeactivatedDuringTheCountdown ==
    /\ ~membership[1].is_active
    /\ \E r \in BagToSet(executed) :
          r.task = "remind_team_member" /\ r.id = 1 /\ r.retries = 0
          /\ r.outcome = "retry"
    /\ \E r \in BagToSet(executed) :
          r.task = "remind_team_member" /\ r.id = 1 /\ r.retries = 1
          /\ r.outcome = "no_membership"
    /\ \A e \in BagToSet(outbox) : e.to # <<recipient(membership[1].user)>>
    /\ \A k \in BagToSet(queue) : ~(k.task = "remind_team_member" /\ k.id = 1)

\* C29: the send_digest messages that a schedule_digest call sends for a
\* team all carry the same for_date, in UTC: the instant of the ETA of the
\* regular message, which is one hour after the ETA of the flagged one; and
\* the email of a flagged digest is dated with the Asia/Manila day of that
\* instant, not with the day of its own ETA.
C29_SameForDateForBoth ==
    [][/\ scheduler_call =>
            \A a \in BagToSet(queue') :
                sent(a) /\ a.task = "send_digest" =>
                    /\ a.for_date.off = 0
                    /\ a.for_date.t = IF a.pm THEN a.eta.t + 3600 ELSE a.eta.t
                    /\ \A b \in BagToSet(queue') :
                          sent(b) /\ b.task = "send_digest" /\ b.id = a.id =>
                              b.for_date = a.for_date
       /\ \A j \in BagToSet(queue) :
            taken(j) /\ j.task = "send_digest" /\ j.pm =>
                \A e \in BagToSet(outbox') :
                    mailed(e) => e.date = (j.for_date.t + 8 * 3600) \div 86400]_vars

\* C29 witness: a flagged digest whose ETA was on Sunday in Asia/Manila went
\* out dated Monday, the day of the regular digest's ETA
C29_PreviewDatedAsTheDigest ==
    \E r \in BagToSet(executed), e \in BagToSet(outbox) :
        /\ r.task = "send_digest" /\ r.pm /\ r.outcome = "sent" /\ r.id = 1
        /\ team[1].send_digest_at = [hour |-> 0, minute |-> 30, second |-> 0]
        /\ e.kind = "digest" /\ e.team = 1
        /\ e.to = <<user_email(team[1].created_by)>>
        /\ e.date = 7
        /\ \E a \in BagToSet(queue) :
              /\ a.task = "send_digest" /\ a.id = 1 /\ ~a.pm
              /\ a.eta.t > now
              /\ (a.eta.t - 3600 + 8 * 3600) \div 86400 = 6

\* C30: while it is still the Monday the calls began on, after kr calls of
\* schedule_reminders and kd calls of schedule_digest the queue holds, for
\* every eligible team that sends on Mondays, exactly kr send_reminders
\* messages and 2 * kd send_digest messages, messages that are equal counted
\* as often as they were sent, and none for any other team.
C30_EveryCallEnqueuesAgain ==
    ManilaDate = 7 =>
        \E kr, kd \in 0..(MaxCalls + 1) :
            /\ kr + kd = (MaxCalls + 1) - budget.calls
            /\ \A t \in Teams :
                  IF DueToday(t)
                  THEN /\ count(queue, "send_reminders", t) = kr
                       /\ count(queue, "send_digest", t) = 2 * kd
                  ELSE \A k \in BagToSet(queue) : k.id # t

\* C30 witness: two calls at the same instant left the same send_reminders
\* message in the queue twice
C30_SameMessageTwice ==
    /\ ManilaDate = 7
    /\ budget.calls = (MaxCalls + 1) - 2
    /\ \E k \in BagToSet(queue) :
          k.task = "send_reminders" /\ CopiesIn(k, queue) = 2

=============================================================================
